---- MODULE Spec2Model ----
(***************************************************************************)
(* Model of next-core's next_font/google/font_fallback.rs:                 *)
(*   format_fallback_font_name, lookup_fallback and get_font_fallback.     *)
(*                                                                         *)
(* Strings are sequences of one-character strings.  An f64 is modelled as  *)
(* a sign and a magnitude n/d kept in lowest terms, with 1/0 for infinity  *)
(* and 0/0 for NaN, so that signed zeros, division by zero and NaN         *)
(* propagate as IEEE 754 prescribes; rounding and the finite range of the  *)
(* binary64 format are not modelled (finite results are exact).            *)
(***************************************************************************)
EXTENDS Integers, Sequences, FiniteSets, TLC

VARIABLES
    pc,            \* position of the running function
    options_vc,    \* the options cell read at line 59: Ok(options) or Err
    request_hash,  \* the request_hash argument
    next_json,     \* what load_next_json will answer: Ok(map) or Err
    options,       \* local `options` (line 59), None before the await
    metrics_json,  \* local `metrics_json` (line 66), None before the load
    result,        \* the value returned, None while running
    issues,        \* the issues emitted so far (line 101)
    lookups,       \* number of calls of lookup_fallback
    scoped         \* the calls of get_scoped_font_family (line 76)

vars == <<pc, options_vc, request_hash, next_json, options, metrics_json,
          result, issues, lookups, scoped>>

----------------------------------------------------------------------------
(* Bounds of the checked instances *)

MaxNameLen == 3

MaxMetric == 2

MaxFallbackLen == 1

MaxRequestHash == 1

----------------------------------------------------------------------------
(* Option and Result *)

None == [some |-> FALSE]

Some(v) == [some |-> TRUE, value |-> v]

Ok(v) == [ok |-> TRUE, value |-> v]

Err(e) == [ok |-> FALSE, error |-> e]

----------------------------------------------------------------------------
(* f64 *)

RECURSIVE Gcd(_, _)
Gcd(a, b) == IF b = 0 THEN a ELSE Gcd(b, a % b)

NaN == [s |-> 1, n |-> 0, d |-> 0]

F64(s, n, d) ==
    IF n = 0 /\ d = 0 THEN NaN
    ELSE LET g == Gcd(n, d) IN [s |-> s, n |-> n \div g, d |-> d \div g]

IsNaN(v) == v.n = 0 /\ v.d = 0

\* `x as f64` for x: i32 or u32
as_f64(i) == IF i < 0 THEN F64(-1, -i, 1) ELSE F64(1, i, 1)

\* f64 `*`
F64Mul(a, b) ==
    IF IsNaN(a) \/ IsNaN(b) THEN NaN
    ELSE IF (a.n = 0 /\ b.d = 0) \/ (b.n = 0 /\ a.d = 0) THEN NaN
    ELSE LET g1 == Gcd(a.n, b.d)
             g2 == Gcd(b.n, a.d)
         IN  F64(a.s * b.s, (a.n \div g1) * (b.n \div g2),
                            (a.d \div g2) * (b.d \div g1))

\* f64 `/`
F64Div(a, b) ==
    IF IsNaN(b) THEN NaN ELSE F64Mul(a, [s |-> b.s, n |-> b.d, d |-> b.n])

\* f64 `==`
F64Eq(a, b) ==
    /\ ~IsNaN(a)
    /\ ~IsNaN(b)
    /\ \/ a = b
       \/ a.n = 0 /\ b.n = 0

\* f64 `> 0.0`
F64Positive(v) == ~IsNaN(v) /\ v.s = 1 /\ v.n > 0

\* f64 `< 0.0`
F64Negative(v) == ~IsNaN(v) /\ v.s = -1 /\ v.n > 0

----------------------------------------------------------------------------
(* Characters *)

UpperCase == <<"A", "B", "C", "D", "E", "F", "G", "H", "I", "J", "K", "L", "M",
               "N", "O", "P", "Q", "R", "S", "T", "U", "V", "W", "X", "Y", "Z">>

LowerCase == <<"a", "b", "c", "d", "e", "f", "g", "h", "i", "j", "k", "l", "m",
               "n", "o", "p", "q", "r", "s", "t", "u", "v", "w", "x", "y", "z">>

Digits == {"0", "1", "2", "3", "4", "5", "6", "7", "8", "9"}

Range(f) == {f[i] : i \in DOMAIN f}

IndexOf(seq, c) == CHOOSE i \in DOMAIN seq : seq[i] = c

\* [A-Z]
is_upper(c) == c \in Range(UpperCase)

\* \w
is_word(c) == c \in Range(UpperCase) \cup Range(LowerCase) \cup Digits \cup {"_"}

\* char::is_whitespace
is_whitespace(c) == c \in {" ", "\t", "\n"}

char_to_lowercase(c) == IF is_upper(c) THEN LowerCase[IndexOf(UpperCase, c)] ELSE c

char_to_uppercase(c) ==
    IF c \in Range(LowerCase) THEN UpperCase[IndexOf(LowerCase, c)] ELSE c

\* str::to_lowercase, str::to_uppercase
to_lowercase(s) == [i \in DOMAIN s |-> char_to_lowercase(s[i])]

to_uppercase(s) == [i \in DOMAIN s |-> char_to_uppercase(s[i])]

RECURSIVE join(_)
join(ss) == IF ss = <<>> THEN <<>> ELSE Head(ss) \o join(Tail(ss))

----------------------------------------------------------------------------
(* format_fallback_font_name *)

\* The regex (?:^\w|[A-Z]|\b\w) matches the one character at position i
FALLBACK_FONT_NAME_is_match(s, i) ==
    \/ i = 1 /\ is_word(s[i])
    \/ is_upper(s[i])
    \/ is_word(s[i]) /\ (i = 1 \/ ~is_word(s[i - 1]))

\* The matches of the regex in s, as positions
FALLBACK_FONT_NAME_matches(s) ==
    {i \in DOMAIN s : FALLBACK_FONT_NAME_is_match(s, i)}

\* regex::Captures of a match at position i: the groups of the regex, group 0
\* (the whole match) first; the pattern has no capturing group
FALLBACK_FONT_NAME_captures(s, i) == << Some(<<s[i]>>) >>

\* The closure of lines 117-130: lower-cases capture group 0, upper-cases the others
replacer(caps) ==
    join([k \in DOMAIN caps |->
            IF k - 1 = 0 THEN to_lowercase(caps[k].value)
                         ELSE to_uppercase(caps[k].value)])

\* Regex::replace: the leftmost match only is replaced
FALLBACK_FONT_NAME_replace(s) ==
    LET ms == FALLBACK_FONT_NAME_matches(s) IN
    IF ms = {} THEN s
    ELSE LET i == CHOOSE m \in ms : \A o \in ms : m <= o
         IN  SubSeq(s, 1, i - 1)
               \o replacer(FALLBACK_FONT_NAME_captures(s, i))
               \o SubSeq(s, i + 1, Len(s))

not_whitespace(c) == ~is_whitespace(c)

format_fallback_font_name(font_family) ==
    LET fallback_name == FALLBACK_FONT_NAME_replace(font_family)
    IN  SelectSeq(fallback_name, not_whitespace)

----------------------------------------------------------------------------
(* The default fallback fonts (crate::next_font::font_fallback).  The tests *)
(* of lines 189-256 fix their names and the ratio x_width_avg/units_per_em: *)
(* 934.5116279069767 = 40184/43 and 854.3953488372093 = 36739/43.           *)

DEFAULT_SANS_SERIF_FONT ==
    [name |-> "Arial", x_width_avg |-> F64(1, 40184, 43), units_per_em |-> 2048]

DEFAULT_SERIF_FONT ==
    [name |-> "Times New Roman", x_width_avg |-> F64(1, 36739, 43),
     units_per_em |-> 2048]

----------------------------------------------------------------------------
(* lookup_fallback *)

\* HashMap::get
map_get(map, key) == IF key \in DOMAIN map THEN Some(map[key]) ELSE None

default_fallback_unless_sans_serif(metrics) ==
    IF metrics.category = "sans-serif" THEN DEFAULT_SANS_SERIF_FONT
                                       ELSE DEFAULT_SERIF_FONT

\* lines 147-151
default_fallback(metrics) ==
    IF metrics.category = "serif" THEN DEFAULT_SERIF_FONT
                                  ELSE DEFAULT_SANS_SERIF_FONT

size_adjust_of_descent(metrics, fallback) ==
    LET main_font_avg_width ==
            F64Div(as_f64(metrics.descent), as_f64(metrics.units_per_em))
        fallback_font_avg_width ==
            F64Div(fallback.x_width_avg, as_f64(fallback.units_per_em))
    IN  F64Div(main_font_avg_width, fallback_font_avg_width)

\* lines 156-158
size_adjust_of(metrics, fallback) ==
    LET main_font_avg_width ==
            F64Div(metrics.x_width_avg, as_f64(metrics.units_per_em))
        fallback_font_avg_width ==
            F64Div(fallback.x_width_avg, as_f64(fallback.units_per_em))
    IN  F64Div(main_font_avg_width, fallback_font_avg_width)

font_adjustment_per_em(metrics, fallback) ==
    LET size_adjust == size_adjust_of(metrics, fallback)
        scale == as_f64(metrics.units_per_em)
    IN  [ascent      |-> F64Div(as_f64(metrics.ascent), scale),
         descent     |-> F64Div(as_f64(metrics.descent), scale),
         line_gap    |-> F64Div(as_f64(metrics.line_gap), scale),
         size_adjust |-> size_adjust]

\* lines 156-169
font_adjustment(metrics, fallback) ==
    LET size_adjust == size_adjust_of(metrics, fallback)
        scale == F64Mul(as_f64(metrics.units_per_em), size_adjust)
    IN  [ascent      |-> F64Div(as_f64(metrics.ascent), scale),
         descent     |-> F64Div(as_f64(metrics.descent), scale),
         line_gap    |-> F64Div(as_f64(metrics.line_gap), scale),
         size_adjust |-> size_adjust]

adjustment_of_always(metrics, fallback, adjust) ==
    Some(font_adjustment(metrics, fallback))

\* lines 153-172
adjustment_of(metrics, fallback, adjust) ==
    IF adjust THEN Some(font_adjustment(metrics, fallback)) ELSE None

lookup_fallback(font_family, font_metrics_map, adjust) ==
    LET key == format_fallback_font_name(font_family)
        found == map_get(font_metrics_map, key)
    IN  IF ~found.some THEN Err("Font not found in metrics")
        ELSE LET metrics == found.value
                 fallback == default_fallback(metrics)
             IN  Ok([font_family |-> fallback.name,
                     adjustment  |-> adjustment_of(metrics, fallback, adjust)])

----------------------------------------------------------------------------
(* Inputs *)

Inter == <<"I", "n", "t", "e", "r">>

RobotoSlab == <<"R", "o", "b", "o", "t", "o", " ", "S", "l", "a", "b">>

RobotoSlabLower == <<"r", "o", "b", "o", "t", "o", " ", "s", "l", "a", "b">>

UnknownFont == <<"U", "n", "k", "n", "o", "w", "n", " ", "F", "o", "n", "t">>

FontFamilies == {Inter, RobotoSlab, RobotoSlabLower, UnknownFont}

\* the keys of the tables of the tests (lines 193, 228)
KeyInter == <<"i", "n", "t", "e", "r">>

KeyRobotoSlab == <<"r", "o", "b", "o", "t", "o", "S", "l", "a", "b">>

TableKeys == {KeyInter, KeyRobotoSlab}

NameAlphabet == {"r", "s", "S", " ", "-", "_"}

Names == UNION {[1..n -> NameAlphabet] : n \in 0..MaxNameLen}

Categories == {"serif", "sans-serif", "monospace", "Serif"}

\* x_width_avg: f64, here the integers of either sign, -0.0 included
XWidthAvgs == {F64(sg, n, 1) : sg \in {1, -1}, n \in 0..MaxMetric}

\* FontMetricsMapEntry (lines 29-42) without its unused fields
FontMetricsMapEntry ==
    [category     : Categories,
     ascent       : 0..MaxMetric,
     descent      : -MaxMetric..MaxMetric,
     line_gap     : 0..MaxMetric,
     units_per_em : 0..MaxMetric,
     x_width_avg  : XWidthAvgs]

\* the entries of the tables get_font_fallback is run on
TableEntries ==
    {e \in FontMetricsMapEntry :
        /\ e.ascent = MaxMetric
        /\ e.descent = -MaxMetric
        /\ e.line_gap = 0
        /\ e.category \in {"serif", "sans-serif", "monospace"}
        /\ e.units_per_em \in {0, MaxMetric}
        /\ e.x_width_avg \in {as_f64(0), as_f64(MaxMetric)}}

\* FontMetricsMap (line 45)
FontMetricsMaps == UNION {[ks -> TableEntries] : ks \in SUBSET TableKeys}

FallbackNames == {"system-ui", "arial"}

FallbackLists == UNION {[1..n -> FallbackNames] : n \in 0..MaxFallbackLen}

\* NextFontGoogleOptions, the fields read here
NextFontGoogleOptions ==
    [font_family          : FontFamilies,
     fallback             : {None} \cup {Some(l) : l \in FallbackLists},
     adjust_font_fallback : BOOLEAN]

----------------------------------------------------------------------------
(* get_font_fallback *)

\* get_scoped_font_family(FontFamilyType::Fallback, options_vc.font_family(),
\* request_hash): the call, whose value is computed elsewhere
get_scoped_font_family(ty, font_family, hash) ==
    [ty |-> ty, font_family |-> font_family, request_hash |-> hash]

\* lines 88-98
NextFontIssue(font_family) ==
    [path        |-> "context",
     title       |-> <<"Failed to find font override values for font", font_family>>,
     description |-> "Skipping generating a fallback font.",
     severity    |-> "Warning"]

Manual(list) == [kind |-> "Manual", list |-> list]

Automatic(scoped_font_family, local_font_family, adjustment) ==
    [kind |-> "Automatic", scoped_font_family |-> scoped_font_family,
     local_font_family |-> local_font_family, adjustment |-> adjustment]

Error == [kind |-> "Error"]

Init ==
    /\ pc = "await_options"
    /\ options_vc \in {Err("options")} \cup {Ok(o) : o \in NextFontGoogleOptions}
    /\ request_hash \in 0..MaxRequestHash
    /\ next_json \in {Err("load")} \cup {Ok(m) : m \in FontMetricsMaps}
    /\ options = None
    /\ metrics_json = None
    /\ result = None
    /\ issues = <<>>
    /\ lookups = 0
    /\ scoped = <<>>

manual_fallback_unless_adjust(opts) ==
    IF opts.adjust_font_fallback THEN None ELSE opts.fallback

manual_fallback_non_empty(opts) ==
    IF opts.fallback.some /\ opts.fallback.value = <<>> THEN None
                                                        ELSE opts.fallback

\* line 60: the scrutinee &options.fallback
manual_fallback(opts) == opts.fallback

\* line 59: options_vc.await succeeds
AwaitOptionsOk ==
    /\ pc = "await_options"
    /\ options_vc.ok
    /\ options' = Some(options_vc.value)
    /\ pc' = "match_fallback"
    /\ UNCHANGED <<options_vc, request_hash, next_json, metrics_json, result,
                   issues, lookups, scoped>>

\* line 59: options_vc.await fails and `?` returns the error
AwaitOptionsErr ==
    /\ pc = "await_options"
    /\ ~options_vc.ok
    /\ result' = Some(Err(options_vc.error))
    /\ pc' = "done"
    /\ UNCHANGED <<options_vc, request_hash, next_json, options, metrics_json,
                   issues, lookups, scoped>>

\* lines 60-61
MatchSome ==
    /\ pc = "match_fallback"
    /\ manual_fallback(options.value).some
    /\ result' = Some(Ok(Manual(manual_fallback(options.value).value)))
    /\ pc' = "done"
    /\ UNCHANGED <<options_vc, request_hash, next_json, options, metrics_json,
                   issues, lookups, scoped>>

\* lines 62-64
MatchNone ==
    /\ pc = "match_fallback"
    /\ ~manual_fallback(options.value).some
    /\ pc' = "load_next_json"
    /\ UNCHANGED <<options_vc, request_hash, next_json, options, metrics_json,
                   result, issues, lookups, scoped>>

\* lines 64-66
LoadOk ==
    /\ pc = "load_next_json"
    /\ next_json.ok
    /\ metrics_json' = Some(next_json.value)
    /\ pc' = "lookup_fallback"
    /\ UNCHANGED <<options_vc, request_hash, next_json, options, result,
                   issues, lookups, scoped>>

LoadErr_emitting ==
    /\ pc = "load_next_json"
    /\ ~next_json.ok
    /\ issues' = Append(issues, NextFontIssue(options.value.font_family))
    /\ result' = Some(Ok(Error))
    /\ pc' = "done"
    /\ UNCHANGED <<options_vc, request_hash, next_json, options, metrics_json,
                   lookups, scoped>>

\* lines 64-65, 106
LoadErr ==
    /\ pc = "load_next_json"
    /\ ~next_json.ok
    /\ result' = Some(Ok(Error))
    /\ pc' = "done"
    /\ UNCHANGED <<options_vc, request_hash, next_json, options, metrics_json,
                   issues, lookups, scoped>>

\* the call of lines 67-71
fallback_of(opts, map) ==
    lookup_fallback(opts.font_family, map, opts.adjust_font_fallback)

\* lines 67-86
LookupOk ==
    /\ pc = "lookup_fallback"
    /\ LET fallback == fallback_of(options.value, metrics_json.value)
           call == get_scoped_font_family("Fallback", options.value.font_family,
                                          request_hash)
       IN  /\ fallback.ok
           /\ scoped' = Append(scoped, call)
           /\ result' = Some(Ok(Automatic(call, fallback.value.font_family,
                                          fallback.value.adjustment)))
    /\ lookups' = lookups + 1
    /\ pc' = "done"
    /\ UNCHANGED <<options_vc, request_hash, next_json, options, metrics_json,
                   issues>>

LookupErr_silent ==
    /\ pc = "lookup_fallback"
    /\ ~fallback_of(options.value, metrics_json.value).ok
    /\ result' = Some(Ok(Error))
    /\ lookups' = lookups + 1
    /\ pc' = "done"
    /\ UNCHANGED <<options_vc, request_hash, next_json, options, metrics_json,
                   issues, scoped>>

LookupErr_propagating ==
    /\ pc = "lookup_fallback"
    /\ ~fallback_of(options.value, metrics_json.value).ok
    /\ result' = Some(Err(fallback_of(options.value, metrics_json.value).error))
    /\ lookups' = lookups + 1
    /\ pc' = "done"
    /\ UNCHANGED <<options_vc, request_hash, next_json, options, metrics_json,
                   issues, scoped>>

\* lines 67-73, 87-103
LookupErr ==
    /\ pc = "lookup_fallback"
    /\ ~fallback_of(options.value, metrics_json.value).ok
    /\ issues' = Append(issues, NextFontIssue(options.value.font_family))
    /\ result' = Some(Ok(Error))
    /\ lookups' = lookups + 1
    /\ pc' = "done"
    /\ UNCHANGED <<options_vc, request_hash, next_json, options, metrics_json,
                   scoped>>

Next ==
    \/ AwaitOptionsOk
    \/ AwaitOptionsErr
    \/ MatchSome
    \/ MatchNone
    \/ LoadOk
    \/ LoadErr
    \/ LookupOk
    \/ LookupErr

Spec == Init /\ [][Next]_vars

----------------------------------------------------------------------------
(* lookup_fallback on its own, over the entries of FontMetricsMapEntry *)

InitLookup ==
    /\ pc = "lookup_fallback"
    /\ options_vc \in {Ok(o) : o \in {n \in NextFontGoogleOptions :
                                        /\ n.font_family \in {Inter, RobotoSlab}
                                        /\ n.fallback = None}}
    /\ request_hash = 0
    /\ next_json \in {Ok(KeyInter :> e) : e \in FontMetricsMapEntry}
    /\ options = Some(options_vc.value)
    /\ metrics_json = Some(next_json.value)
    /\ result = None
    /\ issues = <<>>
    /\ lookups = 0
    /\ scoped = <<>>

LookupCall ==
    /\ pc = "lookup_fallback"
    /\ result' = Some(fallback_of(options.value, metrics_json.value))
    /\ lookups' = lookups + 1
    /\ pc' = "done"
    /\ UNCHANGED <<options_vc, request_hash, next_json, options, metrics_json,
                   issues, scoped>>

NextLookup == LookupCall

SpecLookup == InitLookup /\ [][NextLookup]_vars

----------------------------------------------------------------------------
(* format_fallback_font_name on its own, over the names of Names *)

InitName ==
    /\ pc = "format_fallback_font_name"
    /\ options_vc \in {Ok([font_family |-> f, fallback |-> None,
                           adjust_font_fallback |-> FALSE]) :
                         f \in Names \cup FontFamilies}
    /\ request_hash = 0
    /\ next_json = Err("load")
    /\ options = Some(options_vc.value)
    /\ metrics_json = None
    /\ result = None
    /\ issues = <<>>
    /\ lookups = 0
    /\ scoped = <<>>

FormatCall ==
    /\ pc = "format_fallback_font_name"
    /\ result' = Some(format_fallback_font_name(options.value.font_family))
    /\ pc' = "done"
    /\ UNCHANGED <<options_vc, request_hash, next_json, options, metrics_json,
                   issues, lookups, scoped>>

NextName == FormatCall

SpecName == InitName /\ [][NextName]_vars

----------------------------------------------------------------------------
(* Properties of get_font_fallback, checked under Spec *)

Returned == pc = "done" /\ result.some

Outcomes == {"Manual", "Automatic", "Error"}

\* the function returned Ok(FontFallback) of the given kind
ReturnedKind(kind) ==
    Returned /\ result.value.ok /\ result.value.value.kind = kind

\* the options resolved and carry no manual fallback list
NoManualList == options_vc.ok /\ ~options_vc.value.fallback.some

\* the key lookup_fallback searches the loaded table for
RequestedKey == format_fallback_font_name(options_vc.value.font_family)

\* C1: with a non-empty manual fallback list in the options, the only result
\* ever returned is Manual with exactly that list, whatever the metrics load
\* would answer, the font family and adjust_font_fallback; nothing is looked
\* up and no issue is emitted.
C1_ManualListWins ==
    (/\ options_vc.ok
     /\ options_vc.value.fallback.some
     /\ options_vc.value.fallback.value # <<>>)
    => /\ result.some => result.value = Ok(Manual(options_vc.value.fallback.value))
       /\ pc = "done" => result.some
       /\ lookups = 0
       /\ issues = <<>>
       /\ scoped = <<>>

\* C1 witness: Manual was returned for a non-empty list although the metrics
\* load would have failed and adjust_font_fallback is set
C1_Witness ==
    /\ ReturnedKind("Manual")
    /\ result.value.value.list # <<>>
    /\ result.value.value.list = options_vc.value.fallback.value
    /\ ~next_json.ok
    /\ options_vc.value.adjust_font_fallback

\* C2: with no manual list, a table that loaded and a normalized key absent
\* from it, the function returns Error after emitting exactly one issue, of
\* severity Warning and with the requested family in its title, and
\* get_scoped_font_family is not called.
C2_NotFoundWarnsOnce ==
    (/\ pc = "done"
     /\ NoManualList
     /\ next_json.ok
     /\ RequestedKey \notin DOMAIN next_json.value)
    => /\ result = Some(Ok(Error))
       /\ Len(issues) = 1
       /\ issues[1].severity = "Warning"
       /\ issues[1].title[2] = options_vc.value.font_family
       /\ scoped = <<>>

\* C2 witness: a non-empty table without the requested key, one issue emitted
C2_Witness ==
    /\ ReturnedKind("Error")
    /\ NoManualList
    /\ next_json.ok
    /\ DOMAIN next_json.value # {}
    /\ RequestedKey \notin DOMAIN next_json.value
    /\ Len(issues) = 1

\* C3: with no manual list and a failing metrics load, the function returns
\* Error, emits no issue and never calls lookup_fallback.
C3_LoadFailureIsSilent ==
    (pc = "done" /\ NoManualList /\ ~next_json.ok)
    => /\ result = Some(Ok(Error))
       /\ issues = <<>>
       /\ lookups = 0

\* C3 witness: the load failed and Error was returned
C3_Witness ==
    /\ ReturnedKind("Error")
    /\ NoManualList
    /\ ~next_json.ok
    /\ metrics_json = None

C5_AdjustmentFollowsFlag ==
    ReturnedKind("Automatic")
    => LET opts == options_vc.value
           flipped == lookup_fallback(opts.font_family, next_json.value,
                                      ~opts.adjust_font_fallback)
       IN  /\ result.value.value.adjustment.some <=> opts.adjust_font_fallback
           /\ ~opts.adjust_font_fallback => result.value.value.adjustment = None
           /\ flipped.ok
           /\ flipped.value.font_family = result.value.value.local_font_family
           /\ flipped.value.adjustment.some <=> ~opts.adjust_font_fallback

\* C5 witness: an Automatic result without adjustment for an entry whose
\* metrics would give a finite one
C5_Witness ==
    /\ ReturnedKind("Automatic")
    /\ ~options_vc.value.adjust_font_fallback
    /\ result.value.value.adjustment = None
    /\ next_json.value[RequestedKey].units_per_em > 0
    /\ F64Positive(next_json.value[RequestedKey].x_width_avg)

\* C10 as stated: a manual list that is present but empty does not give Manual;
\* the function goes on to Automatic or Error.
C10_EmptyListIsSkipped ==
    (/\ pc = "done"
     /\ options_vc.ok
     /\ options_vc.value.fallback = Some(<<>>))
    => /\ result.some
       /\ result.value.ok
       /\ result.value.value.kind \in {"Automatic", "Error"}

\* C10 amended: the function returns Manual exactly when the manual list is
\* present, the empty list included (Manual with the empty list, without
\* loading the table); only an absent list leads to Automatic or Error.
C10_ManualWheneverPresent ==
    (pc = "done" /\ options_vc.ok)
    => /\ result.some
       /\ result.value.ok
       /\ result.value.value.kind = "Manual" <=> options_vc.value.fallback.some
       /\ options_vc.value.fallback.some
            => /\ result.value.value.list = options_vc.value.fallback.value
               /\ metrics_json = None
               /\ lookups = 0

\* C10 witness: Manual with the empty list was returned for a present, empty
\* list, with a table that would have resolved the font
C10_Witness ==
    /\ ReturnedKind("Manual")
    /\ options_vc.value.fallback = Some(<<>>)
    /\ result.value.value.list = <<>>
    /\ next_json.ok
    /\ RequestedKey \in DOMAIN next_json.value

----------------------------------------------------------------------------
(* Properties of lookup_fallback, checked under SpecLookup *)

\* lookup_fallback returned Ok
LookupReturned == pc = "done" /\ result.some /\ result.value.ok

\* the entry the lookup found
FoundEntry == next_json.value[KeyInter]

\* the adjustment of an Ok result computed with adjust = true
Adjusted ==
    /\ LookupReturned
    /\ options_vc.value.adjust_font_fallback
    /\ result.value.value.adjustment.some

\* the sign of a finite or infinite f64: -1, 0 or 1
Sign(v) == IF v.n = 0 THEN 0 ELSE v.s

SignOfInt(i) == IF i = 0 THEN 0 ELSE IF i < 0 THEN -1 ELSE 1

\* out * units_per_em * size_adjust == metric, in f64 arithmetic
GivesBack(out, metric, e, size_adjust) ==
    F64Eq(F64Mul(F64Mul(out, as_f64(e.units_per_em)), size_adjust),
          as_f64(metric))

\* the equations of C8 for the entry e, the fallback constant fb and the
\* adjustment adj
AdjustmentEquations(e, fb, adj) ==
    /\ adj.size_adjust =
         F64Div(F64Div(e.x_width_avg, as_f64(e.units_per_em)),
                F64Div(fb.x_width_avg, as_f64(fb.units_per_em)))
    /\ adj.ascent = F64Div(as_f64(e.ascent),
                           F64Mul(as_f64(e.units_per_em), adj.size_adjust))
    /\ adj.descent = F64Div(as_f64(e.descent),
                            F64Mul(as_f64(e.units_per_em), adj.size_adjust))
    /\ adj.line_gap = F64Div(as_f64(e.line_gap),
                             F64Mul(as_f64(e.units_per_em), adj.size_adjust))
    /\ GivesBack(adj.ascent, e.ascent, e, adj.size_adjust)
    /\ GivesBack(adj.descent, e.descent, e, adj.size_adjust)
    /\ GivesBack(adj.line_gap, e.line_gap, e, adj.size_adjust)
    /\ F64Positive(adj.size_adjust)
         => /\ ~IsNaN(adj.descent)
            /\ Sign(adj.descent) = SignOfInt(e.descent)

\* C6: the fallback of a found entry is Times New Roman exactly when the
\* entry's category is the string "serif", and Arial for every other category;
\* the returned font_family is the name of the chosen constant.
C6_SerifOnlyForSerif ==
    LookupReturned
    => LET family == result.value.value.font_family IN
       /\ family = "Times New Roman" <=> FoundEntry.category = "serif"
       /\ FoundEntry.category # "serif" => family = "Arial"
       /\ FoundEntry.category = "serif" => family = DEFAULT_SERIF_FONT.name
       /\ FoundEntry.category # "serif" => family = DEFAULT_SANS_SERIF_FONT.name

\* C6 witness: an entry of an unrecognized category got Arial
C6_Witness ==
    /\ LookupReturned
    /\ FoundEntry.category = "monospace"
    /\ result.value.value.font_family = "Arial"

BothFontsNonZero(e, fb) ==
    /\ e.units_per_em > 0
    /\ e.x_width_avg.n # 0
    /\ fb.units_per_em > 0
    /\ fb.x_width_avg.n # 0

\* C9 as stated: size_adjust > 0 whenever both fonts have units_per_em > 0 and
\* a nonzero x_width_avg of either sign.
C9_PositiveForNonZeroWidth ==
    (Adjusted /\ BothFontsNonZero(FoundEntry, default_fallback(FoundEntry)))
    => F64Positive(result.value.value.adjustment.value.size_adjust)

\* C9 amended: size_adjust > 0 whenever both fonts have units_per_em > 0 and a
\* positive x_width_avg; with a negative requested x_width_avg it is negative.
C9_PositiveForPositiveWidth ==
    (Adjusted /\ BothFontsNonZero(FoundEntry, default_fallback(FoundEntry)))
    => LET size_adjust == result.value.value.adjustment.value.size_adjust IN
       /\ (/\ F64Positive(FoundEntry.x_width_avg)
           /\ F64Positive(default_fallback(FoundEntry).x_width_avg))
            => F64Positive(size_adjust)
       /\ F64Negative(FoundEntry.x_width_avg) => F64Negative(size_adjust)

\* C9 witness: a positive size_adjust computed from positive widths
C9_Witness ==
    /\ Adjusted
    /\ BothFontsNonZero(FoundEntry, default_fallback(FoundEntry))
    /\ F64Positive(FoundEntry.x_width_avg)
    /\ F64Positive(result.value.value.adjustment.value.size_adjust)

----------------------------------------------------------------------------
(* Properties of format_fallback_font_name, checked under SpecName *)

\* C7: the key is the camelCase form of the name: the first matched fragment
\* lower-cased, every later matched fragment upper-cased, the rest kept, all
\* whitespace removed.
C7_CamelCaseKey ==
    (pc = "done" /\ result.some)
    => LET name == options_vc.value.font_family
           ms == FALLBACK_FONT_NAME_matches(name)
           cased == [i \in DOMAIN name |->
                       IF i \notin ms THEN name[i]
                       ELSE IF \A o \in ms : i <= o
                            THEN char_to_lowercase(name[i])
                            ELSE char_to_uppercase(name[i])]
       IN  result.value = SelectSeq(cased, not_whitespace)

====
